---- MODULE Spec2Model ----
(***************************************************************************)
(* State-machine model of libtego's tego_context                           *)
(* (src/src/libtego/source/context.cpp): the context object, the           *)
(* TorManager / TorControl collaborators it drives, and the exported C     *)
(* functions wrapped in tego::translateExceptions.                         *)
(*                                                                         *)
(* A QString is a sequence of code points, a std::string a sequence of     *)
(* bytes; QString::toStdString is the UTF-8 encoding.  Short ASCII texts   *)
(* that the code only compares or formats (bootstrap tags, configuration   *)
(* keys and values) are TLA+ strings.                                      *)
(***************************************************************************)
EXTENDS Integers, Sequences, FiniteSets, TLC

VARIABLES
    torLogs,            \* tego_context::torLogs, std::vector<std::string>
    torVersion,         \* tego_context::torVersion, std::string
    logMessages,        \* TorManager::logMessages(), QStringList
    process,            \* TorManager::process(): NULL or the TorProcess state
    dataDirectory,      \* TorManager data directory (setDataDirectory)
    started,            \* TorManager::start() has been requested
    configurationNeeded,\* TorManager::configurationNeeded()
    status,             \* TorControl::status()
    torStatus,          \* TorControl::torStatus()
    bootstrapStatus,    \* TorControl::bootstrapStatus(), a QVariantMap
    controlTorVersion,  \* TorControl::torVersion(), QString
    configuration,      \* the daemon's settings as TorControl holds them
    saved,              \* TorControl::saveConfiguration() has been requested
    call,               \* the last exported call: arguments, outcome, outputs
    queried             \* history: the result of the latest torVersion() query

vars == <<torLogs, torVersion, logMessages, process, dataDirectory, started,
          configurationNeeded, status, torStatus, bootstrapStatus,
          controlTorVersion, configuration, saved, call, queried>>

managerVars == <<logMessages, process, dataDirectory, started, configurationNeeded>>
controlVars == <<status, torStatus, bootstrapStatus, controlTorVersion,
                 configuration, saved>>
contextVars == <<torLogs, torVersion>>

(***************************************************************************)
(* Bounds of the model.                                                    *)
(***************************************************************************)
MaxLogs == 2        \* lines the collaborator appends
MaxCap == 7         \* largest logBufferSize a caller passes

NULL == "nullptr"
Pointers == {"valid", NULL}

\* log lines the daemon emits: "", "a", "bb", and one non-ASCII line
LogLines == {<<>>, <<97>>, <<98, 98>>, <<233>>}

Min(a, b) == IF a < b THEN a ELSE b

RECURSIVE Flatten(_)
Flatten(ss) == IF ss = <<>> THEN <<>> ELSE Head(ss) \o Flatten(Tail(ss))

IsPrefix(s, t) == Len(s) <= Len(t) /\ SubSeq(t, 1, Len(s)) = s

(***************************************************************************)
(* QString::toStdString: UTF-8 encoding of the code points.                *)
(***************************************************************************)
Utf8(cp) ==
    IF cp < 128 THEN <<cp>>
    ELSE IF cp < 2048 THEN <<192 + (cp \div 64), 128 + (cp % 64)>>
    ELSE <<224 + (cp \div 4096), 128 + ((cp \div 64) % 64), 128 + (cp % 64)>>

toStdString(q) == Flatten([i \in 1..Len(q) |-> Utf8(q[i])])

(***************************************************************************)
(* The handles the constructor stores (lines 16-22).                        *)
(***************************************************************************)
torManager == "TorManager::instance"
torControl == "TorManager::control"

(***************************************************************************)
(* The record of an exported call.  written: the out-parameters assigned;  *)
(* buf: the bytes stored through out_logBuffer, by index; mutators: the     *)
(* collaborator mutators invoked, in order; queries: collaborator getters  *)
(* invoked.                                                                *)
(***************************************************************************)
\* a tego_tor_daemon_config_t with every optional field absent
EmptyConfig ==
    [disableNetwork |-> "none",
     proxy |-> [type |-> "none", address |-> "", port |-> 0,
                username |-> "", password |-> ""],
     allowedPorts |-> <<>>, bridges |-> <<>>]

NoCall ==
    [op |-> "none", outcome |-> "none", nullArgs |-> {}, capacity |-> 0,
     tag |-> 0, config |-> EmptyConfig,
     ret |-> 0, retStr |-> <<>>, retSummary |-> "", retNull |-> FALSE,
     written |-> {}, out_configured |-> FALSE, out_status |-> "",
     out_control |-> 0, out_progress |-> 0, out_tag |-> 0, buf |-> <<>>,
     mutators |-> <<>>, queries |-> {}]

Enter(op, nullArgs) == [NoCall EXCEPT !.op = op, !.nullArgs = nullArgs]

\* tego::translateExceptions: an exception sets *error and returns the sentinel
Thrown(c) == [c EXCEPT !.outcome = "error"]
ThrownNull(c) == [c EXCEPT !.outcome = "error", !.retNull = TRUE]

NullArgs(context, others) ==
    (IF context = NULL THEN {"context"} ELSE {}) \cup others

(***************************************************************************)
(* Initial state: the context right after construction; the collaborators  *)
(* in the state a freshly created TorManager singleton has.                *)
(***************************************************************************)
\* a QVariant holding a QString, and one holding a QVariantList
Str(s) == [list |-> FALSE, v |-> <<s>>]
List(l) == [list |-> TRUE, v |-> l]

\* configKeys, lines 195-207
ConfigKeys ==
    {"DisableNetwork", "Socks4Proxy", "Socks5Proxy", "Socks5ProxyUsername",
     "Socks5ProxyPassword", "HTTPSProxy", "HTTPSProxyAuthenticator",
     "ReachableAddresses", "Bridge", "UseBridges"}

Init ==
    /\ torLogs = <<>>
    /\ torVersion = <<>>
    /\ logMessages = <<>>
    /\ process = NULL
    /\ dataDirectory = ""
    /\ started = FALSE
    /\ configurationNeeded = TRUE
    /\ status = 0
    /\ torStatus = "TorUnknown"
    /\ bootstrapStatus = [tag |-> "", progress |-> 0]
    /\ controlTorVersion = <<>>
    /\ configuration = [k \in ConfigKeys |-> Str("torrc")]
    /\ saved = FALSE
    /\ call = NoCall
    /\ queried = [done |-> FALSE, value |-> <<>>]

(***************************************************************************)
(* Log aggregation.                                                        *)
(***************************************************************************)

\* TorManager appends a line of the daemon's output to its log list
processLogMessage ==
    /\ Len(logMessages) < MaxLogs
    /\ \E line \in LogLines : logMessages' = Append(logMessages, line)
    /\ call' = NoCall
    /\ UNCHANGED <<process, dataDirectory, started, configurationNeeded>>
    /\ UNCHANGED <<controlVars, contextVars, queried>>

get_tor_logs_recopy(local, msgs) ==
    local \o [i \in 1..Len(msgs) |-> toStdString(msgs[i])]

\* tego_context::get_tor_logs: the local mirror after the incremental sync
get_tor_logs(local, msgs) ==
    IF Len(msgs) # Len(local)
    THEN local \o [k \in 1..(IF Len(msgs) > Len(local)
                             THEN Len(msgs) - Len(local) ELSE 0)
                     |-> toStdString(msgs[Len(local) + k])]
    ELSE local

RECURSIVE SumSizes(_)
SumSizes(logs) ==
    IF logs = <<>> THEN 0 ELSE (Len(Head(logs)) + 1) + SumSizes(Tail(logs))

\* tego_context::get_tor_logs_size, on the mirror get_tor_logs() returned
get_tor_logs_size(logs) == SumSizes(logs)

\* the temporary logBuffer of tego_context_get_tor_logs (lines 404-415)
Serialize(logs) ==
    Flatten([i \in 1..Len(logs) |-> logs[i] \o <<10>>]) \o <<0>>

CopyLogs_noTerminator(logs, logBufferSize) ==
    LET logBuffer == Serialize(logs)
        copyCount == Min(logBufferSize, Len(logBuffer))
    IN  [ret |-> copyCount,
         buf |-> [i \in 0..(copyCount - 1) |-> logBuffer[i + 1]]]

\* lines 417-423: the stores through out_logBuffer and the value returned;
\* copyCount - 1 is index -1 when copyCount is 0
CopyLogs(logs, logBufferSize) ==
    LET logBuffer == Serialize(logs)
        copyCount == Min(logBufferSize, Len(logBuffer))
    IN  [ret |-> copyCount,
         buf |-> [i \in (0..(copyCount - 1)) \cup {copyCount - 1} |->
                    IF i = copyCount - 1 THEN 0 ELSE logBuffer[i + 1]]]

tego_context_get_tor_logs_size ==
    \E context \in Pointers :
        LET c == Enter("getTorLogsSize", NullArgs(context, {})) IN
        /\ IF context = NULL \/ torManager = NULL
           THEN /\ call' = Thrown(c)
                /\ UNCHANGED torLogs
           ELSE LET logs == get_tor_logs(torLogs, logMessages) IN
                /\ torLogs' = logs
                /\ call' = [c EXCEPT !.outcome = "ok",
                                     !.ret = get_tor_logs_size(logs),
                                     !.queries = {"logMessages"}]
        /\ UNCHANGED <<torVersion, managerVars, controlVars, queried>>

\* A store at index -1 of the caller's buffer is undefined behaviour: the
\* call either faults or returns normally with the stray byte written.
tego_context_get_tor_logs ==
    \E context \in Pointers, out_logBuffer \in Pointers,
       logBufferSize \in 0..MaxCap :
        LET c == [Enter("getTorLogs",
                        NullArgs(context, IF out_logBuffer = NULL
                                          THEN {"out_logBuffer"} ELSE {}))
                  EXCEPT !.capacity = logBufferSize] IN
        /\ IF context = NULL \/ out_logBuffer = NULL \/ torManager = NULL
           THEN /\ call' = Thrown(c)
                /\ UNCHANGED torLogs
           ELSE LET logs == get_tor_logs(torLogs, logMessages)
                    logs2 == get_tor_logs(logs, logMessages)
                    r == CopyLogs(logs, logBufferSize) IN
                /\ torLogs' = logs2
                /\ \E outcome \in (IF -1 \in DOMAIN r.buf
                                   THEN {"ok", "crash"} ELSE {"ok"}) :
                       call' = [c EXCEPT !.outcome = outcome,
                                         !.ret = IF outcome = "ok" THEN r.ret ELSE 0,
                                         !.buf = r.buf,
                                         !.queries = {"logMessages"}]
        /\ UNCHANGED <<torVersion, managerVars, controlVars, queried>>

NextLogs ==
    \/ processLogMessage
    \/ tego_context_get_tor_logs_size
    \/ tego_context_get_tor_logs

SpecLogs == Init /\ [][NextLogs]_vars

(***************************************************************************)
(* Status queries.                                                         *)
(***************************************************************************)

\* Tor::TorProcess::State as the switch names it, and a value outside it
ProcessStates == {"Failed", "NotStarted", "Starting", "Connecting", "Ready", "Other"}
\* Tor::TorControl::Status, cast to tego_tor_control_status_t by value
ControlStatuses == -1..3
TorStatuses == {"TorUnknown", "TorOffline", "TorReady"}

\* the manager creates, drops or advances its TorProcess
processStateChanged ==
    /\ \E p \in ProcessStates \cup {NULL} : process' = p
    /\ process' # process
    /\ call' = NoCall
    /\ UNCHANGED <<logMessages, dataDirectory, started, configurationNeeded>>
    /\ UNCHANGED <<controlVars, contextVars, queried>>

configurationNeededChanged ==
    /\ configurationNeeded' = ~configurationNeeded
    /\ call' = NoCall
    /\ UNCHANGED <<logMessages, dataDirectory, started, process>>
    /\ UNCHANGED <<controlVars, contextVars, queried>>

statusChanged ==
    /\ \E st \in ControlStatuses : status' = st
    /\ status' # status
    /\ call' = NoCall
    /\ UNCHANGED <<torStatus, bootstrapStatus, controlTorVersion, configuration, saved>>
    /\ UNCHANGED <<managerVars, contextVars, queried>>

torStatusChanged ==
    /\ \E st \in TorStatuses : torStatus' = st
    /\ torStatus' # torStatus
    /\ call' = NoCall
    /\ UNCHANGED <<status, bootstrapStatus, controlTorVersion, configuration, saved>>
    /\ UNCHANGED <<managerVars, contextVars, queried>>

get_tor_process_status_connectingIsStarting(torProcess) ==
    IF torProcess = NULL THEN "external"
    ELSE CASE torProcess = "Failed" -> "failed"
           [] torProcess = "NotStarted" -> "not_started"
           [] torProcess = "Starting" -> "starting"
           [] torProcess = "Connecting" -> "starting"
           [] torProcess = "Ready" -> "running"
           [] OTHER -> "unknown"

\* tego_context::get_tor_process_status, after the handle check
get_tor_process_status(torProcess) ==
    IF torProcess = NULL THEN "external"
    ELSE CASE torProcess = "Failed" -> "failed"
           [] torProcess = "NotStarted" -> "not_started"
           [] torProcess = "Starting" -> "starting"
           [] torProcess \in {"Connecting", "Ready"} -> "running"
           [] OTHER -> "unknown"

\* tego_context::get_tor_network_status, after the handle check
get_tor_network_status(st) ==
    CASE st = "TorOffline" -> "offline"
      [] st = "TorReady" -> "ready"
      [] OTHER -> "unknown"

OutArg(ptr, name) == IF ptr = NULL THEN {name} ELSE {}

tego_context_get_tor_daemon_configured ==
    \E context \in Pointers, out_configured \in Pointers :
        LET c == Enter("getTorDaemonConfigured",
                       NullArgs(context, OutArg(out_configured, "out_configured"))) IN
        /\ IF context = NULL \/ out_configured = NULL
           THEN call' = Thrown(c)
           ELSE IF torManager = NULL
           THEN call' = [Thrown(c) EXCEPT !.written = {"out_configured"},
                                          !.out_configured = FALSE]
           ELSE call' = [c EXCEPT !.outcome = "ok",
                                  !.written = {"out_configured"},
                                  !.out_configured = ~configurationNeeded,
                                  !.queries = {"configurationNeeded"}]
        /\ UNCHANGED <<contextVars, managerVars, controlVars, queried>>

tego_context_get_tor_control_status ==
    \E context \in Pointers, out_status \in Pointers :
        LET c == Enter("getTorControlStatus",
                       NullArgs(context, OutArg(out_status, "out_status"))) IN
        /\ IF context = NULL \/ out_status = NULL \/ torControl = NULL
           THEN call' = Thrown(c)
           ELSE call' = [c EXCEPT !.outcome = "ok",
                                  !.written = {"out_status"},
                                  !.out_control = status,
                                  !.queries = {"status"}]
        /\ UNCHANGED <<contextVars, managerVars, controlVars, queried>>

tego_context_get_tor_process_status ==
    \E context \in Pointers, out_status \in Pointers :
        LET c == Enter("getTorProcessStatus",
                       NullArgs(context, OutArg(out_status, "out_status"))) IN
        /\ IF context = NULL \/ out_status = NULL \/ torManager = NULL
           THEN call' = Thrown(c)
           ELSE call' = [c EXCEPT !.outcome = "ok",
                                  !.written = {"out_status"},
                                  !.out_status = get_tor_process_status(process),
                                  !.queries = {"process"}]
        /\ UNCHANGED <<contextVars, managerVars, controlVars, queried>>

tego_context_get_tor_network_status ==
    \E context \in Pointers, out_status \in Pointers :
        LET c == Enter("getTorNetworkStatus",
                       NullArgs(context, OutArg(out_status, "out_status"))) IN
        /\ IF context = NULL \/ out_status = NULL \/ torControl = NULL
           THEN call' = Thrown(c)
           ELSE call' = [c EXCEPT !.outcome = "ok",
                                  !.written = {"out_status"},
                                  !.out_status = get_tor_network_status(torStatus),
                                  !.queries = {"torStatus"}]
        /\ UNCHANGED <<contextVars, managerVars, controlVars, queried>>

\* tego_tor_launch_config_t values a caller passes
DataDirectories == {"", "/data"}

tego_context_start_tor ==
    \E context \in Pointers, launchConfig \in Pointers, dir \in DataDirectories :
        LET c == Enter("startTor",
                       NullArgs(context, OutArg(launchConfig, "launchConfig"))) IN
        /\ IF context = NULL \/ launchConfig = NULL
           THEN /\ call' = Thrown(c)
                /\ UNCHANGED <<dataDirectory, started>>
           ELSE /\ dataDirectory' = dir
                /\ started' = TRUE
                /\ call' = [c EXCEPT !.outcome = "ok",
                                     !.mutators = <<"setDataDirectory", "start">>]
        /\ UNCHANGED <<logMessages, process, configurationNeeded>>
        /\ UNCHANGED <<contextVars, controlVars, queried>>

NextStatus ==
    \/ tego_context_start_tor
    \/ processStateChanged
    \/ configurationNeededChanged
    \/ statusChanged
    \/ torStatusChanged
    \/ tego_context_get_tor_daemon_configured
    \/ tego_context_get_tor_control_status
    \/ tego_context_get_tor_process_status
    \/ tego_context_get_tor_network_status

SpecStatus == Init /\ [][NextStatus]_vars

(***************************************************************************)
(* Bootstrap status and the bootstrap tag table.                           *)
(***************************************************************************)

\* tagList, lines 136-164 (C index i is tagList[i + 1])
tagList ==
    <<"starting", "conn_pt", "conn_done_pt", "conn_proxy", "conn_done_proxy",
      "conn", "conn_done", "handshake", "handshake_done", "onehop_create",
      "requesting_status", "loading_status", "loading_keys",
      "requesting_descriptors", "loading_descriptors", "enough_dirinfo",
      "ap_conn_pt_summary", "ap_conn_done_pt", "ap_conn_proxy",
      "ap_conn_done_proxy", "ap_conn", "ap_conn_done", "ap_handshake",
      "ap_handshake_done", "circuit_create", "done">>

\* summaryList, lines 307-335 (C index i is summaryList[i + 1])
summaryList ==
    <<"Starting", "Connecting to pluggable transport",
      "Connected to pluggable transport", "Connecting to proxy",
      "Connected to proxy", "Connecting to a relay", "Connected to a relay",
      "Handshaking with a relay", "Handshake with a relay done",
      "Establishing an encrypted directory connection",
      "Asking for networkstatus consensus", "Loading networkstatus consensus",
      "Loading authority key certs", "Asking for relay descriptors",
      "Loading relay descriptors",
      "Loaded enough directory info to build circuits",
      "Connecting to pluggable transport to build circuits",
      "Connected to pluggable transport to build circuits",
      "Connecting to proxy to build circuits",
      "Connected to proxy to build circuits",
      "Connecting to a relay to build circuits",
      "Connected to a relay to build circuits",
      "Finishing handshake with a relay to build circuits",
      "Handshake finished with a relay to build circuits",
      "Establishing a Tor circuit", "Done">>

\* static_assert(countof(tagList) == tego_tor_bootstrap_tag_count), line 165
tego_tor_bootstrap_tag_count == Len(tagList)

\* The enumerator that precedes "starting".  get_tor_bootstrap_tag casts the
\* tagList index to the enum (line 171), so "starting" is 0 and "done" is
\* tego_tor_bootstrap_tag_count - 1; the enumerator before them is -1.
tego_tor_bootstrap_tag_invalid == -1

\* tag strings the control channel reports: the table's, and some it lacks
ReportedTags ==
    {tagList[i] : i \in 1..Len(tagList)} \cup {"", "Starting", "bogus"}
ReportedProgress == {0, 50, 100}

\* tag arguments a caller passes to tego_tor_bootstrap_tag_to_summary
TagArgs == -2..(tego_tor_bootstrap_tag_count + 1)

bootstrapStatusChanged ==
    /\ \E t \in ReportedTags, p \in ReportedProgress :
           bootstrapStatus' = [tag |-> t, progress |-> p]
    /\ bootstrapStatus' # bootstrapStatus
    /\ call' = NoCall
    /\ UNCHANGED <<status, torStatus, controlTorVersion, configuration, saved>>
    /\ UNCHANGED <<managerVars, contextVars, queried>>

get_tor_bootstrap_tag_defaulting(bootstrapTag) ==
    IF \E i \in 0..(tego_tor_bootstrap_tag_count - 1) : tagList[i + 1] = bootstrapTag
    THEN [thrown |-> FALSE,
          tag |-> CHOOSE i \in 0..(tego_tor_bootstrap_tag_count - 1) :
                      /\ tagList[i + 1] = bootstrapTag
                      /\ \A j \in 0..(i - 1) : tagList[j + 1] # bootstrapTag]
    ELSE [thrown |-> FALSE, tag |-> tego_tor_bootstrap_tag_invalid]

\* tego_context::get_tor_bootstrap_tag: the first index whose wire string is
\* the reported tag, or the exception of line 175
get_tor_bootstrap_tag(bootstrapTag) ==
    IF \E i \in 0..(tego_tor_bootstrap_tag_count - 1) : tagList[i + 1] = bootstrapTag
    THEN [thrown |-> FALSE,
          tag |-> CHOOSE i \in 0..(tego_tor_bootstrap_tag_count - 1) :
                      /\ tagList[i + 1] = bootstrapTag
                      /\ \A j \in 0..(i - 1) : tagList[j + 1] # bootstrapTag]
    ELSE [thrown |-> TRUE, tag |-> 0]

\* tego_context::get_tor_bootstrap_progress
get_tor_bootstrap_progress(bs) == bs.progress

tego_tor_bootstrap_tag_to_summary_zeroInvalid(tag) ==
    IF tag > 0 /\ tag < tego_tor_bootstrap_tag_count
    THEN [thrown |-> FALSE, summary |-> summaryList[tag + 1]]
    ELSE [thrown |-> TRUE, summary |-> ""]

\* the lambda of tego_tor_bootstrap_tag_to_summary
tego_tor_bootstrap_tag_to_summary(tag) ==
    IF tag > tego_tor_bootstrap_tag_invalid /\ tag < tego_tor_bootstrap_tag_count
    THEN [thrown |-> FALSE, summary |-> summaryList[tag + 1]]
    ELSE [thrown |-> TRUE, summary |-> ""]

bootstrapTagToSummary ==
    \E tag \in TagArgs :
        LET c == [Enter("bootstrapTagToSummary", {}) EXCEPT !.tag = tag]
            r == tego_tor_bootstrap_tag_to_summary(tag) IN
        /\ IF r.thrown
           THEN call' = ThrownNull(c)
           ELSE call' = [c EXCEPT !.outcome = "ok", !.retSummary = r.summary]
        /\ UNCHANGED <<contextVars, managerVars, controlVars, queried>>

tego_context_get_tor_bootstrap_status ==
    \E context \in Pointers, out_progress \in Pointers, out_tag \in Pointers :
        LET c == Enter("getTorBootstrapStatus",
                       NullArgs(context, OutArg(out_progress, "out_progress")
                                         \cup OutArg(out_tag, "out_tag"))) IN
        /\ IF \/ context = NULL \/ out_progress = NULL \/ out_tag = NULL
              \/ torControl = NULL
           THEN call' = Thrown(c)
           ELSE LET progress == get_tor_bootstrap_progress(bootstrapStatus)
                    tag == get_tor_bootstrap_tag(bootstrapStatus.tag) IN
                IF tag.thrown
                THEN call' = [Thrown(c) EXCEPT !.queries = {"bootstrapStatus"}]
                ELSE call' = [c EXCEPT !.outcome = "ok",
                                       !.written = {"out_progress", "out_tag"},
                                       !.out_progress = progress,
                                       !.out_tag = tag.tag,
                                       !.queries = {"bootstrapStatus"}]
        /\ UNCHANGED <<contextVars, managerVars, controlVars, queried>>

NextBootstrap ==
    \/ bootstrapStatusChanged
    \/ bootstrapTagToSummary
    \/ tego_context_get_tor_bootstrap_status

SpecBootstrap == Init /\ [][NextBootstrap]_vars

(***************************************************************************)
(* The version string.                                                     *)
(***************************************************************************)

\* versions the control channel reports: none yet, "4", "5", "4.5", "4.6",
\* and one with a non-ASCII character
Versions == {<<>>, <<52>>, <<53>>, <<52, 46, 53>>, <<52, 46, 54>>, <<52, 946>>}

torVersionChanged ==
    /\ \E v \in Versions : controlTorVersion' = v
    /\ controlTorVersion' # controlTorVersion
    /\ call' = NoCall
    /\ UNCHANGED <<status, torStatus, bootstrapStatus, configuration, saved>>
    /\ UNCHANGED <<managerVars, contextVars, queried>>

get_tor_version_string_alwaysQuery(cached, reported) ==
    [thrown |-> torControl = NULL, asked |-> TRUE,
     version |-> toStdString(reported)]

\* tego_context::get_tor_version_string: the cache after the call, whether
\* torVersion() was asked, whether the handle check threw
get_tor_version_string(cached, reported) ==
    IF cached = <<>>
    THEN [thrown |-> torControl = NULL, asked |-> torControl # NULL,
          version |-> IF torControl = NULL THEN cached ELSE toStdString(reported)]
    ELSE [thrown |-> FALSE, asked |-> FALSE, version |-> cached]

tego_context_get_tor_version_string ==
    \E context \in Pointers :
        LET c == Enter("getTorVersionString", NullArgs(context, {})) IN
        IF context = NULL
        THEN /\ call' = ThrownNull(c)
             /\ UNCHANGED <<contextVars, managerVars, controlVars, queried>>
        ELSE LET r == get_tor_version_string(torVersion, controlTorVersion) IN
             /\ torVersion' = r.version
             /\ call' = IF r.thrown THEN ThrownNull(c)
                        ELSE [c EXCEPT !.outcome = "ok", !.retStr = r.version,
                                       !.queries = IF r.asked THEN {"torVersion"}
                                                   ELSE {}]
             /\ queried' = IF r.asked THEN [done |-> TRUE, value |-> r.version]
                           ELSE queried
             /\ UNCHANGED <<torLogs, managerVars, controlVars>>

NextVersion ==
    \/ torVersionChanged
    \/ tego_context_get_tor_version_string

SpecVersion == Init /\ [][NextVersion]_vars

(***************************************************************************)
(* Starting the daemon and configuring it.                                 *)
(***************************************************************************)

\* tego_tor_daemon_config_t values a caller passes; "other" is a proxy type
\* outside the four enumerators
DaemonConfigs ==
    [disableNetwork : {"none", "true", "false"},
     proxy : [type : {"none", "socks4", "socks5", "https", "other"},
              address : {"10.0.0.1"}, port : {9050},
              username : {"", "u"}, password : {"", "p"}],
     allowedPorts : {<<>>, <<80, 443>>},
     bridges : {<<>>, <<"b1", "b2">>}]

\* fmt::format("{}:{}", a, b)
FormatPair(a, b) == a \o ":" \o b

\* lines 254-262: "*:p1, *:p2, ..."
RECURSIVE MorePorts(_)
MorePorts(ports) ==
    IF ports = <<>> THEN ""
    ELSE ", *:" \o ToString(Head(ports)) \o MorePorts(Tail(ports))

ReachableAddresses(ports) == "*:" \o ToString(Head(ports)) \o MorePorts(Tail(ports))

\* TorControl::setConfiguration: every key of the map is assigned
setConfiguration(conf, vm) ==
    [k \in DOMAIN conf |-> IF k \in DOMAIN vm THEN vm[k] ELSE conf[k]]

\* tego_context::update_tor_daemon_config, lines 192-277: the QVariantMap
\* handed to setConfiguration
BuildPatch(config) ==
    LET vm0 == [k \in ConfigKeys |-> Str("")]
        vm1 == IF config.disableNetwork # "none"
               THEN [vm0 EXCEPT !["DisableNetwork"] =
                        Str(IF config.disableNetwork = "true" THEN "1" ELSE "0")]
               ELSE vm0
        hostPort == FormatPair(config.proxy.address, ToString(config.proxy.port))
        vm2 == CASE config.proxy.type = "socks4" ->
                      [vm1 EXCEPT !["Socks4Proxy"] = Str(hostPort)]
                 [] config.proxy.type = "socks5" ->
                      [vm1 EXCEPT
                         !["Socks5Proxy"] = Str(hostPort),
                         !["Socks5ProxyUsername"] =
                             IF config.proxy.username # ""
                             THEN Str(config.proxy.username) ELSE @,
                         !["Socks5ProxyPassword"] =
                             IF config.proxy.password # ""
                             THEN Str(config.proxy.password) ELSE @]
                 [] config.proxy.type = "https" ->
                      [vm1 EXCEPT
                         !["HTTPSProxy"] = Str(hostPort),
                         !["HTTPSProxyAuthenticator"] =
                             IF config.proxy.username # "" \/ config.proxy.password # ""
                             THEN Str(FormatPair(config.proxy.username,
                                                 config.proxy.password))
                             ELSE @]
                 [] OTHER -> vm1
        vm3 == IF Len(config.allowedPorts) > 0
               THEN [vm2 EXCEPT !["ReachableAddresses"] =
                        Str(ReachableAddresses(config.allowedPorts))]
               ELSE vm2
        vm4 == IF Len(config.bridges) > 0
               THEN [vm3 EXCEPT !["Bridge"] = List(config.bridges),
                                !["UseBridges"] = Str("1")]
               ELSE vm3
    IN  vm4

\* Line 190 dereferences daemonConfig unchecked.  With a null daemonConfig
\* that is undefined behaviour: the call faults at the first read, or goes on
\* with whatever the reads yield (any configuration) and reaches
\* setConfiguration.
tego_context_update_tor_daemon_config ==
    \E context \in Pointers, torConfig \in Pointers :
        LET c == Enter("updateTorDaemonConfig",
                       NullArgs(context, OutArg(torConfig, "torConfig"))) IN
        /\ IF context = NULL \/ torControl = NULL
           THEN /\ call' = Thrown(c)
                /\ UNCHANGED configuration
           ELSE \/ /\ torConfig = NULL
                   /\ call' = [c EXCEPT !.outcome = "crash"]
                   /\ UNCHANGED configuration
                \/ \E config \in DaemonConfigs :
                   /\ configuration' = setConfiguration(configuration, BuildPatch(config))
                   /\ call' = [c EXCEPT !.outcome = "ok",
                                        !.config = IF torConfig = NULL
                                                   THEN EmptyConfig ELSE config,
                                        !.mutators = <<"setConfiguration">>]
        /\ UNCHANGED <<status, torStatus, bootstrapStatus, controlTorVersion, saved>>
        /\ UNCHANGED <<contextVars, managerVars, queried>>

tego_context_save_tor_daemon_config ==
    \E context \in Pointers :
        LET c == Enter("saveTorDaemonConfig", NullArgs(context, {})) IN
        /\ IF context = NULL \/ torControl = NULL
           THEN /\ call' = Thrown(c)
                /\ UNCHANGED saved
           ELSE /\ saved' = TRUE
                /\ call' = [c EXCEPT !.outcome = "ok",
                                     !.mutators = <<"saveConfiguration">>]
        /\ UNCHANGED <<status, torStatus, bootstrapStatus, controlTorVersion,
                       configuration>>
        /\ UNCHANGED <<contextVars, managerVars, queried>>

NextConfig ==
    \/ tego_context_update_tor_daemon_config
    \/ tego_context_save_tor_daemon_config

SpecConfig == Init /\ [][NextConfig]_vars

(***************************************************************************)
(* The whole program.                                                      *)
(***************************************************************************)
Next ==
    \/ NextLogs
    \/ NextStatus
    \/ NextBootstrap
    \/ NextVersion
    \/ NextConfig

Spec == Init /\ [][Next]_vars

(***************************************************************************)
(* Properties.                                                             *)
(***************************************************************************)

N == Len(tagList)

RECURSIVE JoinLines(_)
JoinLines(lines) ==
    IF lines = <<>> THEN <<>>
    ELSE Head(lines) \o <<10>> \o JoinLines(Tail(lines))

RECURSIVE TotalLength(_)
TotalLength(lines) ==
    IF lines = <<>> THEN 0 ELSE Len(Head(lines)) + TotalLength(Tail(lines))

Mirror(msgs) == [i \in 1..Len(msgs) |-> toStdString(msgs[i])]

ReadOk(c) == c.op \in {"getTorLogs", "getTorLogsSize"} /\ c.outcome = "ok"

\* C1: a public operation called with a required pointer argument null ends
\* in the error outcome, calls no collaborator mutator, writes no output and
\* leaves the log mirror, the cached version and the collaborators unchanged.
C1_NullArgumentFails ==
    [][(call'.op # "none" /\ call'.nullArgs # {}) =>
          /\ call'.outcome = "error"
          /\ call'.mutators = <<>>
          /\ call'.written = {}
          /\ DOMAIN call'.buf = {}
          /\ UNCHANGED <<torLogs, torVersion, managerVars, controlVars>>]_vars

\* C2: getTorLogs with capacity 0 or a null buffer ends in the error outcome,
\* returns 0 and stores no byte at any index of the caller's buffer.
C2_ZeroCapacityFails ==
    (call.op = "getTorLogs" /\ "context" \notin call.nullArgs
       /\ (call.capacity = 0 \/ "out_logBuffer" \in call.nullArgs)) =>
        /\ call.outcome = "error"
        /\ call.ret = 0
        /\ DOMAIN call.buf = {}

\* C3: a successful getTorLogs with capacity >= 1 stores exactly at indices
\* 0 .. n-1, n = min(capacity, (sum of length + 1) + 1), returns n, ends the
\* stored bytes with the null terminator and fills indices 0 .. n-2 with the
\* first n-1 bytes of the newline-joined lines.
C3_BoundedTerminatedCopy ==
    (call.op = "getTorLogs" /\ call.outcome = "ok" /\ call.capacity >= 1) =>
        LET joined == JoinLines(torLogs)
            serializedSize == (TotalLength(torLogs) + Len(torLogs)) + 1
            n == Min(call.capacity, serializedSize) IN
        /\ DOMAIN call.buf = 0..(n - 1)
        /\ call.ret = n
        /\ call.buf[n - 1] = 0
        /\ \A i \in 0..(n - 2) : call.buf[i] = joined[i + 1]

\* logs ["a", "bb"] read with capacity 3: exactly "a\n\0" is stored
C3_Witness ==
    /\ call.op = "getTorLogs" /\ call.outcome = "ok" /\ call.capacity = 3
    /\ torLogs = <<<<97>>, <<98, 98>>>>
    /\ call.ret = 3
    /\ call.buf = [i \in 0..2 |-> <<97, 10, 0>>[i + 1]]

\* C4: every successful log read leaves the mirror equal to the
\* collaborator's sequence: the lines stored before keep index and text, the
\* lines the collaborator appended since are added in order, a read right
\* after a read changes nothing, and nothing else changes the mirror.
C4_LogMirror ==
    [][/\ IsPrefix(torLogs, torLogs')
       /\ ReadOk(call') =>
             /\ torLogs' = Mirror(logMessages')
             /\ torLogs' = torLogs \o SubSeq(Mirror(logMessages'),
                                             Len(torLogs) + 1, Len(logMessages'))
       /\ (ReadOk(call) /\ ReadOk(call')) => torLogs' = torLogs
       /\ call'.op = "none" => torLogs' = torLogs]_vars

\* a size query whose mirror holds both of the collaborator's lines, the
\* second of them non-ASCII (two bytes, so the size is 2 + 3)
C4_Witness ==
    /\ call.op = "getTorLogsSize" /\ call.outcome = "ok"
    /\ torLogs = <<<<97>>, <<195, 169>>>>
    /\ logMessages = <<<<97>>, <<233>>>>
    /\ call.ret = 5

\* C5 as stated: a summary for every ordinal in 1 .. N-1, failure for 0 and
\* for every ordinal >= N.
C5_ZeroIsInvalid ==
    call.op = "bootstrapTagToSummary" =>
        /\ call.tag \in 1..(N - 1) =>
              (call.outcome = "ok" /\ call.retSummary # "")
        /\ (call.tag = 0 \/ call.tag >= N) =>
              (call.outcome = "error" /\ call.retNull)

\* C5 amended: bootstrapTagToSummary returns a non-empty summary for every
\* ordinal in 0 .. N-1 (ordinal 0 is "starting") and fails, returning null,
\* for every negative ordinal (the invalid tag is -1) and every ordinal >= N.
C5_SummaryRange ==
    call.op = "bootstrapTagToSummary" =>
        /\ call.tag \in 0..(N - 1) =>
              (call.outcome = "ok" /\ call.retSummary # "" /\ ~call.retNull)
        /\ (call.tag < 0 \/ call.tag >= N) =>
              (call.outcome = "error" /\ call.retNull)

C5_Witness ==
    /\ call.op = "bootstrapTagToSummary" /\ call.tag = 0
    /\ call.outcome = "ok" /\ call.retSummary = "Starting"

\* the recognized keys whose input field is absent
AbsentKeys(config) ==
    (IF config.disableNetwork = "none" THEN {"DisableNetwork"} ELSE {})
    \cup (IF config.proxy.type # "socks4" THEN {"Socks4Proxy"} ELSE {})
    \cup (IF config.proxy.type # "socks5" THEN {"Socks5Proxy"} ELSE {})
    \cup (IF config.proxy.type # "socks5" \/ config.proxy.username = ""
          THEN {"Socks5ProxyUsername"} ELSE {})
    \cup (IF config.proxy.type # "socks5" \/ config.proxy.password = ""
          THEN {"Socks5ProxyPassword"} ELSE {})
    \cup (IF config.proxy.type # "https" THEN {"HTTPSProxy"} ELSE {})
    \cup (IF config.proxy.type # "https"
             \/ (config.proxy.username = "" /\ config.proxy.password = "")
          THEN {"HTTPSProxyAuthenticator"} ELSE {})
    \cup (IF config.allowedPorts = <<>> THEN {"ReachableAddresses"} ELSE {})
    \cup (IF config.bridges = <<>> THEN {"Bridge", "UseBridges"} ELSE {})

\* C6: after a successful updateTorDaemonConfig the daemon's value of every
\* recognized key whose input field was absent is its value before the call.
C6_AbsentFieldsKept ==
    [][(call'.op = "updateTorDaemonConfig" /\ call'.outcome = "ok"
          /\ call'.nullArgs = {}) =>
          \A k \in AbsentKeys(call'.config) :
              configuration'[k] = configuration[k]]_vars

\* C7: getTorLogs called with the capacity getTorLogsSize just returned stores
\* the complete serialization: every line, each followed by its newline, and
\* then the null terminator.  (Stated for a non-zero size; a size of 0 is the
\* zero-capacity call of C2.)
C7_SizeHoldsSerialization ==
    [][(call.op = "getTorLogsSize" /\ call.outcome = "ok" /\ call.ret >= 1
          /\ call'.op = "getTorLogs" /\ call'.nullArgs = {}
          /\ call'.capacity = call.ret) =>
          LET full == JoinLines(torLogs') \o <<0>> IN
          /\ call'.outcome = "ok"
          /\ call'.buf = [i \in 0..(Len(full) - 1) |-> full[i + 1]]]_vars

\* C8: getTorProcessStatus succeeds and reports the collaborator's state at
\* the time of the call: running-externally iff there is no process object,
\* else Failed -> failed, NotStarted -> not-started, Starting -> starting,
\* Connecting and Ready -> running, any other state -> unknown.
C8_ProcessStatusMapping ==
    (call.op = "getTorProcessStatus" /\ call.nullArgs = {}) =>
        /\ call.outcome = "ok"
        /\ call.written = {"out_status"}
        /\ call.out_status = "external" <=> process = NULL
        /\ process = "Failed" => call.out_status = "failed"
        /\ process = "NotStarted" => call.out_status = "not_started"
        /\ process = "Starting" => call.out_status = "starting"
        /\ process = "Connecting" => call.out_status = "running"
        /\ process = "Ready" => call.out_status = "running"
        /\ process = "Other" => call.out_status = "unknown"

C8_Witness ==
    /\ call.op = "getTorProcessStatus" /\ call.outcome = "ok"
    /\ process = "Connecting" /\ call.out_status = "running"
    /\ started

\* C9: getTorBootstrapStatus (given its pointers) ends in the error outcome
\* iff the reported tag string is none of the table's wire strings; in the
\* error outcome neither out_progress nor out_tag is written; in the success
\* outcome out_tag is the table index of the reported string and
\* out_progress is the reported progress.
C9_UnknownTagFails ==
    call.op = "getTorBootstrapStatus" =>
        /\ call.outcome = "error" => call.written = {}
        /\ call.nullArgs = {} =>
              /\ call.outcome = "error" <=>
                    (\A i \in 1..N : tagList[i] # bootstrapStatus.tag)
              /\ call.outcome = "ok" =>
                    /\ call.written = {"out_progress", "out_tag"}
                    /\ call.out_tag \in 0..(N - 1)
                    /\ tagList[call.out_tag + 1] = bootstrapStatus.tag
                    /\ call.out_progress = bootstrapStatus.progress

\* a tag that differs from a wire string by case only is refused
C9_Witness ==
    /\ call.op = "getTorBootstrapStatus" /\ call.nullArgs = {}
    /\ bootstrapStatus = [tag |-> "Starting", progress |-> 50]
    /\ call.outcome = "error" /\ call.written = {}

\* C10 as stated: once a call has queried torVersion(), every later call
\* returns that value and does not query again, the empty value included.
C10_FirstQueryCached ==
    [][(queried.done /\ call'.op = "getTorVersionString"
          /\ call'.outcome = "ok") =>
          (call'.retStr = queried.value /\ call'.queries = {})]_vars

\* C10 amended: once a call has queried a non-empty version, every later call
\* returns that value and does not call torVersion() again, whatever the
\* collaborator reports by then; an empty result is not cached, and the next
\* call queries torVersion() again and returns what it reports.
C10_NonEmptyQueryCached ==
    [][(queried.done /\ call'.op = "getTorVersionString"
          /\ call'.outcome = "ok") =>
          IF queried.value # <<>>
          THEN call'.retStr = queried.value /\ call'.queries = {}
          ELSE /\ call'.queries = {"torVersion"}
               /\ call'.retStr = toStdString(controlTorVersion)]_vars

\* a call answered from the cache while the collaborator reports another version
C10_Witness ==
    /\ call.op = "getTorVersionString" /\ call.outcome = "ok"
    /\ queried = [done |-> TRUE, value |-> <<52>>]
    /\ controlTorVersion = <<53>>
    /\ call.queries = {} /\ call.retStr = <<52>>

====
